---- MODULE Spec2Model ----
(***************************************************************************)
(* A model of the two wait groups of lazyext-sync/src/wg.rs:               *)
(*   WaitGroup       count: Mutex<usize> + cvar: Condvar                   *)
(*   AsyncWaitGroup  count: AtomicUsize  + waker: Mutex<Option<Waker>>     *)
(* Threads call add / done / wait / waitings on handles of one group; all  *)
(* handles share one Arc<Inner>, so the model keeps one copy of the state. *)
(* The slice helpers of lazyext-slice and lazyext-bytes are pure functions *)
(* of their inputs: they are operators, applied to inputs drawn in the     *)
(* initial state.                                                          *)
(***************************************************************************)
EXTENDS Integers, FiniteSets, Sequences, TLC

\* ------------------------------------------------------------------ bounds
NumThreads == 3   \* threads calling the WaitGroup
NumWorkers == 2   \* threads calling add / done / waitings of the AsyncWaitGroup
NumTasks == 2     \* tasks awaiting AsyncWaitGroup::wait
MaxAdd == 2       \* largest total of all add(num) arguments
MaxDone == 2      \* largest number of done() calls

Threads == 1..NumThreads
Workers == 1..NumWorkers
Tasks == 1..NumTasks
NoThread == 0     \* the mutex is free
TheInner == 1     \* the allocation made by WaitGroup::new / AsyncWaitGroup::new
NoTask == 0       \* Option<Waker>::None

\* What a call returned: "waitings" with the count as value; "wait" (the
\* blocking wait returned), "ready" and "pending" (poll returned Poll::Ready,
\* Poll::Pending) with the caller as value. blocked says that the caller had
\* parked, or had been told Poll::Pending, before.
NoRet == [call |-> "none", value |-> 0, blocked |-> FALSE]
Returned(c, v, b) == [call |-> c, value |-> v, blocked |-> b]

VARIABLES
    variant,      \* "sync": the group is a WaitGroup; "async": an AsyncWaitGroup
    inner,        \* per thread: the Arc<Inner> / Arc<AsyncInner> its handle holds
    count,        \* Inner.count (under the mutex) / AsyncInner.count (atomic)
    lock,         \* owner of the Mutex around Inner.count
    cvar,         \* Inner.cvar: the threads parked in Condvar::wait
    pc,           \* per thread: where it is inside the call it makes
    val,          \* per thread: done's local (sync: value to store; async: prev)
    ret,          \* what the call that returned in the latest step returned
    waker,        \* AsyncInner.waker: the task whose Waker is registered
    wlock,        \* owner (a task) of the Mutex around AsyncInner.waker
    taken,        \* per worker: the Waker done() took and has yet to wake
    tstate,       \* per task: "idle" (not awaiting), "polling" / "repolling"
                  \* (inside the first / a later poll), "pending"
    notified,     \* per task: its waker was invoked since its last poll began
    sumAdd,       \* history: total of the completed add(num)
    numDone,      \* history: number of done() calls that took effect or returned
    noops,        \* history: number of done() calls that found count == 0
    settled,      \* history: threads whose wait() returned, no add since
    lastReg,      \* history: the task that registered its waker most recently
    rounds,       \* history: number of times a done() took the count to 0
    woke,         \* history, kept by NotedAsyncSpec only: per worker, its
                  \* done() in progress has invoked a waker
    called,       \* the slice helper that has been called, "none" before
    src,          \* its receiver (self)
    other,        \* its argument
    res           \* what it returned, or that it panicked

vars == <<variant, inner, count, lock, cvar, pc, val, ret, waker, wlock, taken,
          tstate, notified, sumAdd, numDone, noops, settled, lastReg,
          rounds, woke, called, src, other, res>>

syncVars == <<lock, cvar, settled>>
slotVars == <<waker, wlock, taken, tstate, notified, lastReg>>
asyncVars == <<waker, wlock, taken, tstate, notified, lastReg, woke>>
pureVars == <<called, src, other, res>>

\* ------------------------------------------------------------ construction
\* WaitGroup::default / AsyncWaitGroup::default: count 0, no waiter, no waker.
GroupInit ==
    /\ variant \in {"sync", "async"}
    /\ inner = [t \in Threads |-> TheInner]
    /\ count = 0
    /\ lock = NoThread
    /\ cvar = {}
    /\ pc = [t \in Threads |-> "idle"]
    /\ val = [t \in Threads |-> 0]
    /\ ret = NoRet
    /\ waker = NoTask
    /\ wlock = NoTask
    /\ taken = [t \in Workers |-> NoTask]
    /\ tstate = [k \in Tasks |-> "idle"]
    /\ notified = [k \in Tasks |-> FALSE]
    /\ sumAdd = 0
    /\ numDone = 0
    /\ noops = 0
    /\ settled = {}
    /\ lastReg = NoTask
    /\ rounds = 0
    /\ woke = [t \in Workers |-> FALSE]

\* No slice helper is called on the wait groups' side.
NoRes == [panic |-> FALSE, value |-> <<>>]
NoCall ==
    /\ called = "none"
    /\ src = <<>>
    /\ other = <<>>
    /\ res = NoRes

Init == GroupInit /\ NoCall

\* done() calls begun and not yet returned.
DonePcs == {"done_store", "done_take", "done_wake", "done_cas"}
DonesInFlight == Cardinality({t \in Threads : pc[t] \in DonePcs})

\* ---------------------------------------------------------------- WaitGroup
\* Faulty variant of Add: `*ctr = num` in place of `*ctr += num`.
AddOverwrite(t) ==
    /\ variant = "sync"
    /\ pc[t] = "idle"
    /\ lock = NoThread
    /\ \E n \in 0..MaxAdd :
        /\ sumAdd + n <= MaxAdd
        /\ count' = n
        /\ sumAdd' = sumAdd + n
        /\ settled' = IF n > 0 THEN {} ELSE settled
    /\ \E u \in Threads : inner' = [inner EXCEPT ![u] = inner[t]]
    /\ ret' = NoRet
    /\ UNCHANGED pureVars
    /\ UNCHANGED <<variant, rounds, lock, cvar, pc, val, numDone, noops>>
    /\ UNCHANGED asyncVars

\* The count a handle reaches: that of the group's allocation; any other
\* allocation would be one made by Default, with Mutex::new(0) /
\* AtomicUsize::new(0), that no call of this group touches.
CountVia(i) == IF i = TheInner THEN count ELSE 0

\* Faulty variant of Add: the handle returned is a new group (Self::default()).
AddFresh(t) ==
    /\ variant = "sync"
    /\ pc[t] = "idle"
    /\ lock = NoThread
    /\ \E n \in 0..MaxAdd :
        /\ sumAdd + n <= MaxAdd
        /\ count' = count + n
        /\ sumAdd' = sumAdd + n
        /\ settled' = IF n > 0 THEN {} ELSE settled
    /\ \E u \in Threads : inner' = [inner EXCEPT ![u] = TheInner + 1]
    /\ ret' = NoRet
    /\ UNCHANGED pureVars
    /\ UNCHANGED <<variant, rounds, lock, cvar, pc, val, numDone, noops>>
    /\ UNCHANGED asyncVars

\* Faulty variant of AddNum: add calls notify_all after it has changed the
\* count, whatever num is.
AddNumNotify(t, n) ==
    /\ variant = "sync"
    /\ pc[t] = "idle"
    /\ lock = NoThread
    /\ sumAdd + n <= MaxAdd
    /\ count' = count + n
    /\ sumAdd' = sumAdd + n
    /\ settled' = IF n > 0 THEN {} ELSE settled
    /\ \E u \in Threads : inner' = [inner EXCEPT ![u] = inner[t]]
    /\ pc' = [u \in Threads |-> IF u \in cvar THEN "woken" ELSE pc[u]]
    /\ cvar' = {}
    /\ ret' = NoRet
    /\ UNCHANGED pureVars
    /\ UNCHANGED <<variant, rounds, lock, val, numDone, noops>>
    /\ UNCHANGED asyncVars

\* add: ctr = self.inner.count.lock(); *ctr += num; the guard is dropped on
\* return. Nothing else runs under the mutex meanwhile: one step. The handle
\* returned, Self { inner: self.inner.clone() }, goes to some thread u.
AddNum(t, n) ==
    /\ variant = "sync"
    /\ pc[t] = "idle"
    /\ lock = NoThread
    /\ sumAdd + n <= MaxAdd
    /\ count' = count + n
    /\ sumAdd' = sumAdd + n
    /\ settled' = IF n > 0 THEN {} ELSE settled
    /\ \E u \in Threads : inner' = [inner EXCEPT ![u] = inner[t]]
    /\ ret' = NoRet
    /\ UNCHANGED pureVars
    /\ UNCHANGED <<variant, rounds, lock, cvar, pc, val, numDone, noops>>
    /\ UNCHANGED asyncVars

\* add(num) for any num.
Add(t) == \E n \in 0..MaxAdd : AddNum(t, n)

\* Faulty variant of NotifyAll: Condvar::notify_one, which wakes one parked
\* thread and leaves the others parked.
NotifyOne(p) ==
    IF cvar = {} THEN p
    ELSE [t \in Threads |-> IF t = CHOOSE u \in cvar : TRUE THEN "woken"
                                                             ELSE p[t]]

\* Condvar::notify_all: every parked thread leaves the condvar and has to take
\* the mutex again before it goes on.
NotifyAll(p) == [t \in Threads |-> IF t \in cvar THEN "woken" ELSE p[t]]

\* Faulty variant of DoneEval: the first branch yields 0 without notify_all.
DoneEvalNoNotify(t) ==
    /\ variant = "sync"
    /\ pc[t] = "idle"
    /\ lock = NoThread
    /\ numDone + DonesInFlight < MaxDone
    /\ lock' = t
    /\ pc' = [pc EXCEPT ![t] = "done_store"]
    /\ cvar' = cvar
    /\ val' = [val EXCEPT ![t] = IF count <= 1 THEN 0 ELSE count - 1]
    /\ ret' = NoRet
    /\ UNCHANGED pureVars
    /\ UNCHANGED <<variant, inner, rounds, count, sumAdd, numDone, noops, settled>>
    /\ UNCHANGED asyncVars

\* Faulty variant of DoneEval: the first branch is taken for every count above
\* 0, so any done() notifies and stores 0.
DoneEvalEarlyZero(t) ==
    /\ variant = "sync"
    /\ pc[t] = "idle"
    /\ lock = NoThread
    /\ numDone + DonesInFlight < MaxDone
    /\ lock' = t
    /\ IF count >= 1
       THEN /\ pc' = [NotifyAll(pc) EXCEPT ![t] = "done_store"]
            /\ cvar' = {}
       ELSE /\ pc' = [pc EXCEPT ![t] = "done_store"]
            /\ cvar' = cvar
    /\ val' = [val EXCEPT ![t] = 0]
    /\ ret' = NoRet
    /\ UNCHANGED pureVars
    /\ UNCHANGED <<variant, inner, rounds, count, sumAdd, numDone, noops, settled>>
    /\ UNCHANGED asyncVars

\* Faulty variant of DoneEval: the count is read without taking the mutex.
DoneEvalUnlocked(t) ==
    /\ variant = "sync"
    /\ pc[t] = "idle"
    /\ lock = NoThread
    /\ numDone + DonesInFlight < MaxDone
    /\ lock' = lock
    /\ IF count = 1
       THEN /\ pc' = [NotifyAll(pc) EXCEPT ![t] = "done_store"]
            /\ cvar' = {}
       ELSE /\ pc' = [pc EXCEPT ![t] = "done_store"]
            /\ cvar' = cvar
    /\ val' = [val EXCEPT ![t] = IF count <= 1 THEN 0 ELSE count - 1]
    /\ ret' = NoRet
    /\ UNCHANGED pureVars
    /\ UNCHANGED <<variant, inner, rounds, count, sumAdd, numDone, noops, settled>>
    /\ UNCHANGED asyncVars

\* Faulty variant of DoneEval: notify_all is called in every branch.
DoneEvalNotifyAlways(t) ==
    /\ variant = "sync"
    /\ pc[t] = "idle"
    /\ lock = NoThread
    /\ numDone + DonesInFlight < MaxDone
    /\ lock' = t
    /\ pc' = [NotifyAll(pc) EXCEPT ![t] = "done_store"]
    /\ cvar' = {}
    /\ val' = [val EXCEPT ![t] = IF count <= 1 THEN 0 ELSE count - 1]
    /\ ret' = NoRet
    /\ UNCHANGED pureVars
    /\ UNCHANGED <<variant, inner, rounds, count, sumAdd, numDone, noops, settled>>
    /\ UNCHANGED asyncVars

\* done: val = self.inner.count.lock(), then the if / else if / else that
\* computes the value to store; the first branch calls notify_all before it
\* yields 0. The store has not happened yet and the mutex stays held.
DoneEval(t) ==
    /\ variant = "sync"
    /\ pc[t] = "idle"
    /\ lock = NoThread
    /\ numDone + DonesInFlight < MaxDone
    /\ lock' = t
    /\ IF count = 1
       THEN /\ pc' = [NotifyAll(pc) EXCEPT ![t] = "done_store"]
            /\ cvar' = {}
            /\ val' = [val EXCEPT ![t] = 0]
       ELSE IF count = 0
       THEN /\ pc' = [pc EXCEPT ![t] = "done_store"]
            /\ cvar' = cvar
            /\ val' = [val EXCEPT ![t] = 0]
       ELSE /\ pc' = [pc EXCEPT ![t] = "done_store"]
            /\ cvar' = cvar
            /\ val' = [val EXCEPT ![t] = count - 1]
    /\ ret' = NoRet
    /\ UNCHANGED pureVars
    /\ UNCHANGED <<variant, inner, rounds, count, sumAdd, numDone, noops, settled>>
    /\ UNCHANGED asyncVars

\* done: *val = <the value computed>; the guard is dropped on return.
DoneStore(t) ==
    /\ variant = "sync"
    /\ pc[t] = "done_store"
    /\ count' = val[t]
    /\ lock' = NoThread
    /\ pc' = [pc EXCEPT ![t] = "idle"]
    /\ val' = [val EXCEPT ![t] = 0]
    /\ numDone' = numDone + 1
    /\ noops' = IF count = 0 THEN noops + 1 ELSE noops
    /\ rounds' = IF count # 0 /\ val[t] = 0 THEN rounds + 1 ELSE rounds
    /\ ret' = NoRet
    /\ UNCHANGED pureVars
    /\ UNCHANGED <<variant, inner, cvar, sumAdd, settled>>
    /\ UNCHANGED asyncVars

\* Clone for WaitGroup: Self { inner: self.inner.clone() }; the clone of the
\* handle of thread t goes to thread u.
Clone(t, u) ==
    /\ variant = "sync"
    /\ pc[t] = "idle"
    /\ inner' = [inner EXCEPT ![u] = inner[t]]
    /\ ret' = NoRet
    /\ UNCHANGED pureVars
    /\ UNCHANGED <<variant, rounds, count, lock, cvar, pc, val, sumAdd,
                   numDone, noops, settled>>
    /\ UNCHANGED asyncVars

\* waitings: self.inner.count.lock().clone(), the temporary guard dropped at
\* the end of the statement.
Waitings(t) ==
    /\ variant = "sync"
    /\ pc[t] = "idle"
    /\ lock = NoThread
    /\ ret' = Returned("waitings", CountVia(inner[t]), FALSE)
    /\ UNCHANGED pureVars
    /\ UNCHANGED <<variant, inner, rounds, count, lock, cvar, pc, val, sumAdd, numDone,
                   noops, settled>>
    /\ UNCHANGED asyncVars

\* Faulty variant of WaitCheck: the thread waits for the count to change
\* without giving up the guard (a sleep loop in place of Condvar::wait).
WaitCheckKeepsLock(t, blocked) ==
    /\ lock = NoThread
    /\ IF count = 0
       THEN /\ pc' = [pc EXCEPT ![t] = "idle"]
            /\ cvar' = cvar
            /\ lock' = lock
            /\ settled' = settled \cup {t}
            /\ ret' = Returned("wait", t, blocked)
       ELSE /\ pc' = [pc EXCEPT ![t] = "parked"]
            /\ cvar' = cvar \cup {t}
            /\ lock' = t
            /\ settled' = settled
            /\ ret' = NoRet
    /\ UNCHANGED pureVars
    /\ UNCHANGED <<variant, inner, rounds, count, val, sumAdd, numDone, noops>>
    /\ UNCHANGED asyncVars

\* Faulty variant of WaitCheck: a woken thread returns once the count has
\* been taken to 0 at some time, whatever the count is when it looks.
WaitCheckOnceZero(t, blocked) ==
    /\ lock = NoThread
    /\ IF count = 0 \/ (blocked /\ rounds >= 1)
       THEN /\ pc' = [pc EXCEPT ![t] = "idle"]
            /\ cvar' = cvar
            /\ settled' = settled \cup {t}
            /\ ret' = Returned("wait", t, blocked)
       ELSE /\ pc' = [pc EXCEPT ![t] = "parked"]
            /\ cvar' = cvar \cup {t}
            /\ settled' = settled
            /\ ret' = NoRet
    /\ UNCHANGED pureVars
    /\ UNCHANGED <<variant, inner, rounds, count, lock, val, sumAdd, numDone, noops>>
    /\ UNCHANGED asyncVars

\* wait, holding the mutex: `if ctr.eq(&0) { return }` on entry and
\* `while *ctr > 0 { cvar.wait(ctr) }` on entry and after every wakeup. Both
\* tests read the same count under the same guard: 0 returns (dropping the
\* guard), anything else parks, and Condvar::wait releases the mutex as it parks.
WaitCheck(t, blocked) ==
    /\ lock = NoThread
    /\ IF count = 0
       THEN /\ pc' = [pc EXCEPT ![t] = "idle"]
            /\ cvar' = cvar
            /\ settled' = settled \cup {t}
            /\ ret' = Returned("wait", t, blocked)
       ELSE /\ pc' = [pc EXCEPT ![t] = "parked"]
            /\ cvar' = cvar \cup {t}
            /\ settled' = settled
            /\ ret' = NoRet
    /\ UNCHANGED pureVars
    /\ UNCHANGED <<variant, inner, rounds, count, lock, val, sumAdd, numDone, noops>>
    /\ UNCHANGED asyncVars

\* Faulty variant of Wait: as if done() latched "finished" when it took the
\* count to 0 and add never cleared it, so that wait returns at once on a
\* group that has been used before.
WaitLatched(t) ==
    /\ variant = "sync"
    /\ pc[t] = "idle"
    /\ lock = NoThread
    /\ IF count = 0 \/ rounds >= 1
       THEN /\ pc' = pc
            /\ cvar' = cvar
            /\ settled' = settled \cup {t}
            /\ ret' = Returned("wait", t, FALSE)
       ELSE /\ pc' = [pc EXCEPT ![t] = "parked"]
            /\ cvar' = cvar \cup {t}
            /\ settled' = settled
            /\ ret' = NoRet
    /\ UNCHANGED pureVars
    /\ UNCHANGED <<variant, inner, rounds, count, lock, val, sumAdd, numDone, noops>>
    /\ UNCHANGED asyncVars

\* Faulty variant of Wait: the thread waits on the condvar before it tests the
\* count (`loop { cvar.wait(ctr); if *ctr == 0 { break } }`).
WaitParksFirst(t) ==
    /\ variant = "sync"
    /\ pc[t] = "idle"
    /\ lock = NoThread
    /\ pc' = [pc EXCEPT ![t] = "parked"]
    /\ cvar' = cvar \cup {t}
    /\ ret' = NoRet
    /\ UNCHANGED pureVars
    /\ UNCHANGED <<variant, inner, rounds, count, lock, val, sumAdd, numDone,
                   noops, settled>>
    /\ UNCHANGED asyncVars

\* wait called: ctr = self.inner.count.lock(), then the tests.
Wait(t) ==
    /\ variant = "sync"
    /\ pc[t] = "idle"
    /\ WaitCheck(t, FALSE)

\* Condvar::wait may return without any notification (a spurious wakeup).
SpuriousWake(t) ==
    /\ variant = "sync"
    /\ t \in cvar
    /\ cvar' = cvar \ {t}
    /\ pc' = [pc EXCEPT ![t] = "woken"]
    /\ ret' = NoRet
    /\ UNCHANGED pureVars
    /\ UNCHANGED <<variant, inner, rounds, count, lock, val, sumAdd, numDone, noops,
                   settled>>
    /\ UNCHANGED asyncVars

\* Faulty variant of WaitReacquire: an `if` in place of the `while`, so that a
\* woken thread returns without reading the count again.
WaitReacquireNoRecheck(t) ==
    /\ variant = "sync"
    /\ pc[t] = "woken"
    /\ lock = NoThread
    /\ pc' = [pc EXCEPT ![t] = "idle"]
    /\ settled' = settled \cup {t}
    /\ ret' = Returned("wait", t, TRUE)
    /\ UNCHANGED pureVars
    /\ UNCHANGED <<variant, inner, rounds, count, lock, cvar, val, sumAdd, numDone, noops>>
    /\ UNCHANGED asyncVars

\* Faulty variant of WaitReacquire: the woken thread tests the count without
\* taking the mutex again.
WaitReacquireUnlocked(t) ==
    /\ variant = "sync"
    /\ pc[t] = "woken"
    /\ IF count = 0
       THEN /\ pc' = [pc EXCEPT ![t] = "idle"]
            /\ cvar' = cvar
            /\ settled' = settled \cup {t}
            /\ ret' = Returned("wait", t, TRUE)
       ELSE /\ pc' = [pc EXCEPT ![t] = "parked"]
            /\ cvar' = cvar \cup {t}
            /\ settled' = settled
            /\ ret' = NoRet
    /\ UNCHANGED pureVars
    /\ UNCHANGED <<variant, inner, rounds, count, lock, val, sumAdd, numDone, noops>>
    /\ UNCHANGED asyncVars

\* Condvar::wait returning: the woken thread takes the mutex again and goes
\* back to the while test.
WaitReacquire(t) ==
    /\ variant = "sync"
    /\ pc[t] = "woken"
    /\ WaitCheck(t, TRUE)

NextSync ==
    \E t \in Threads :
        \/ Add(t)
        \/ DoneEval(t)
        \/ DoneStore(t)
        \/ Waitings(t)
        \/ \E u \in Threads : Clone(t, u)
        \/ Wait(t)
        \/ SpuriousWake(t)
        \/ WaitReacquire(t)

\* ----------------------------------------------------------- AsyncWaitGroup
\* Faulty variant of AsyncAdd: store(num) in place of fetch_add(num).
AsyncAddStore(t) ==
    /\ variant = "async"
    /\ pc[t] = "idle"
    /\ \E n \in 0..MaxAdd :
        /\ sumAdd + n <= MaxAdd
        /\ count' = n
        /\ sumAdd' = sumAdd + n
    /\ \E u \in Workers : inner' = [inner EXCEPT ![u] = inner[t]]
    /\ ret' = NoRet
    /\ UNCHANGED pureVars
    /\ UNCHANGED <<variant, rounds, pc, val, numDone, noops>>
    /\ UNCHANGED syncVars
    /\ UNCHANGED asyncVars

\* add: self.inner.count.fetch_add(num, SeqCst).
AsyncAddNum(t, n) ==
    /\ variant = "async"
    /\ pc[t] = "idle"
    /\ sumAdd + n <= MaxAdd
    /\ count' = count + n
    /\ sumAdd' = sumAdd + n
    /\ \E u \in Workers : inner' = [inner EXCEPT ![u] = inner[t]]
    /\ ret' = NoRet
    /\ UNCHANGED pureVars
    /\ UNCHANGED <<variant, rounds, pc, val, numDone, noops>>
    /\ UNCHANGED syncVars
    /\ UNCHANGED asyncVars

\* add(num) for any num.
AsyncAdd(t) == \E n \in 0..MaxAdd : AsyncAddNum(t, n)

\* Clone for AsyncWaitGroup: Self { inner: self.inner.clone() }.
AsyncClone(t, u) ==
    /\ variant = "async"
    /\ pc[t] = "idle"
    /\ inner' = [inner EXCEPT ![u] = inner[t]]
    /\ ret' = NoRet
    /\ UNCHANGED pureVars
    /\ UNCHANGED <<variant, rounds, count, pc, val, sumAdd, numDone, noops>>
    /\ UNCHANGED syncVars
    /\ UNCHANGED asyncVars

\* waitings: self.inner.count.load(SeqCst).
AsyncWaitings(t) ==
    /\ variant = "async"
    /\ pc[t] = "idle"
    /\ ret' = Returned("waitings", CountVia(inner[t]), FALSE)
    /\ UNCHANGED pureVars
    /\ UNCHANGED <<variant, inner, rounds, count, pc, val, sumAdd, numDone, noops>>
    /\ UNCHANGED syncVars
    /\ UNCHANGED asyncVars

\* Faulty variant of EnterClosure: no `val == 0` branch, so the closure yields
\* Some(val - 1) for 0 as well.
EnterClosureNoClamp(t, v) ==
    /\ val' = [val EXCEPT ![t] = v]
    /\ pc' = [pc EXCEPT ![t] = IF v = 1 THEN "done_take" ELSE "done_cas"]
    /\ numDone' = numDone
    /\ noops' = noops
    /\ woke' = woke

\* Faulty variant of EnterClosure: the waker is taken for every value above
\* 0, not only for 1.
EnterClosureTakeAlways(t, v) ==
    /\ val' = [val EXCEPT ![t] = IF v = 0 THEN 0 ELSE v]
    /\ pc' = [pc EXCEPT ![t] = IF v = 0 THEN "idle" ELSE "done_take"]
    /\ numDone' = IF v = 0 THEN numDone + 1 ELSE numDone
    /\ noops' = IF v = 0 THEN noops + 1 ELSE noops
    /\ woke' = [woke EXCEPT ![t] = IF v = 0 THEN FALSE ELSE woke[t]]

\* done: fetch_update hands the value it read (v) to the closure. The closure
\* yields None for 0 (fetch_update gives up and done returns), Some(v - 1) for
\* v >= 2 (next comes the compare-exchange), and for 1 it first locks the
\* waker mutex.
EnterClosure(t, v) ==
    /\ val' = [val EXCEPT ![t] = IF v = 0 THEN 0 ELSE v]
    /\ pc' = [pc EXCEPT ![t] = IF v = 0 THEN "idle"
                               ELSE IF v = 1 THEN "done_take"
                               ELSE "done_cas"]
    /\ numDone' = IF v = 0 THEN numDone + 1 ELSE numDone
    /\ noops' = IF v = 0 THEN noops + 1 ELSE noops
    /\ woke' = [woke EXCEPT ![t] = IF v = 0 THEN FALSE ELSE woke[t]]

\* done: fetch_update's first read, prev = self.load(SeqCst).
AsyncDoneLoad(t) ==
    /\ variant = "async"
    /\ pc[t] = "idle"
    /\ numDone + DonesInFlight < MaxDone
    /\ EnterClosure(t, count)
    /\ ret' = NoRet
    /\ UNCHANGED pureVars
    /\ UNCHANGED <<variant, inner, rounds, count, sumAdd>>
    /\ UNCHANGED syncVars
    /\ UNCHANGED slotVars

\* Faulty variant of AsyncDoneTake: `.clone()` in place of `.take()`, which
\* leaves the waker in the slot.
AsyncDoneTakeClone(t) ==
    /\ variant = "async"
    /\ pc[t] = "done_take"
    /\ wlock = NoTask
    /\ taken' = [taken EXCEPT ![t] = waker]
    /\ pc' = [pc EXCEPT ![t] = IF waker = NoTask THEN "done_cas" ELSE "done_wake"]
    /\ ret' = NoRet
    /\ UNCHANGED pureVars
    /\ UNCHANGED <<variant, inner, rounds, count, val, waker, wlock, tstate, notified,
                   sumAdd, numDone, noops, woke, lastReg>>
    /\ UNCHANGED syncVars

\* Faulty variant of AsyncDoneTake: `let mut g = self.inner.waker.lock();` with
\* the waker taken through g, so that the guard lives on while the waker is
\* invoked. -t stands for the guard of worker t.
AsyncDoneTakeKeepsGuard(t) ==
    /\ variant = "async"
    /\ pc[t] = "done_take"
    /\ wlock = NoTask
    /\ taken' = [taken EXCEPT ![t] = waker]
    /\ waker' = NoTask
    /\ wlock' = IF waker = NoTask THEN NoTask ELSE 0 - t
    /\ pc' = [pc EXCEPT ![t] = IF waker = NoTask THEN "done_cas" ELSE "done_wake"]
    /\ ret' = NoRet
    /\ UNCHANGED pureVars
    /\ UNCHANGED <<variant, inner, rounds, count, val, tstate, notified,
                   sumAdd, numDone, noops, woke, lastReg>>
    /\ UNCHANGED syncVars

\* done, closure with val == 1: waker = self.inner.waker.lock().take(); the
\* temporary guard is dropped at the end of the statement. With None there is
\* nothing to wake and the closure yields Some(0).
AsyncDoneTake(t) ==
    /\ variant = "async"
    /\ pc[t] = "done_take"
    /\ wlock = NoTask
    /\ taken' = [taken EXCEPT ![t] = waker]
    /\ waker' = NoTask
    /\ pc' = [pc EXCEPT ![t] = IF waker = NoTask THEN "done_cas" ELSE "done_wake"]
    /\ ret' = NoRet
    /\ UNCHANGED pureVars
    /\ UNCHANGED <<variant, inner, rounds, count, val, wlock, tstate, notified,
                   sumAdd, numDone, noops, woke, lastReg>>
    /\ UNCHANGED syncVars

\* Waker::wake: the scheduler is told to poll the task again. A task that is
\* not awaiting the group any more has nothing to poll.
Wake(k) == [notified EXCEPT ![k] = tstate[k] # "idle"]

\* done, closure with val == 1: waker.wake(), then the closure yields Some(0).
WakeTaken(t) ==
    /\ variant = "async"
    /\ pc[t] = "done_wake"
    /\ notified' = Wake(taken[t])
    /\ taken' = [taken EXCEPT ![t] = NoTask]
    /\ pc' = [pc EXCEPT ![t] = "done_cas"]
    /\ ret' = NoRet
    /\ UNCHANGED pureVars
    /\ UNCHANGED <<variant, inner, rounds, count, val, waker, wlock, tstate,
                   sumAdd, numDone, noops, lastReg>>
    /\ UNCHANGED syncVars

AsyncDoneWake(t) == WakeTaken(t) /\ woke' = woke

\* The same step with the history kept: this done() call has invoked a waker.
AsyncDoneWakeNoted(t) == WakeTaken(t) /\ woke' = [woke EXCEPT ![t] = TRUE]

\* What the closure yielded for prev: Some(0) for 1, Some(prev - 1) otherwise.
NextVal(prev) == IF prev = 1 THEN 0 ELSE prev - 1

\* Faulty variant of AsyncDoneCas: a plain store in place of the
\* compare-exchange, which overwrites whatever happened since the read.
AsyncDoneStoreBlind(t) ==
    /\ variant = "async"
    /\ pc[t] = "done_cas"
    /\ count' = NextVal(val[t])
    /\ pc' = [pc EXCEPT ![t] = "idle"]
    /\ val' = [val EXCEPT ![t] = 0]
    /\ numDone' = numDone + 1
    /\ noops' = noops
    /\ woke' = [woke EXCEPT ![t] = FALSE]
    /\ rounds' = IF count' # count /\ count' = 0 THEN rounds + 1 ELSE rounds
    /\ ret' = NoRet
    /\ UNCHANGED pureVars
    /\ UNCHANGED <<variant, inner, sumAdd>>
    /\ UNCHANGED syncVars
    /\ UNCHANGED slotVars

\* done: fetch_update's compare_exchange_weak(prev, next). Ok: the store is
\* done and done() returns. Err(actual): the closure runs again on actual.
AsyncDoneCas(t) ==
    /\ variant = "async"
    /\ pc[t] = "done_cas"
    /\ IF count = val[t]
       THEN /\ count' = NextVal(val[t])
            /\ pc' = [pc EXCEPT ![t] = "idle"]
            /\ val' = [val EXCEPT ![t] = 0]
            /\ numDone' = numDone + 1
            /\ noops' = noops
            /\ woke' = [woke EXCEPT ![t] = FALSE]
       ELSE /\ count' = count
            /\ EnterClosure(t, count)
    /\ rounds' = IF count' # count /\ count' = 0 THEN rounds + 1 ELSE rounds
    /\ ret' = NoRet
    /\ UNCHANGED pureVars
    /\ UNCHANGED <<variant, inner, sumAdd>>
    /\ UNCHANGED syncVars
    /\ UNCHANGED slotVars

\* done: compare_exchange_weak may fail although the value matches; the
\* closure runs again on the same value.
AsyncDoneCasSpurious(t) ==
    /\ variant = "async"
    /\ pc[t] = "done_cas"
    /\ count = val[t]
    /\ EnterClosure(t, count)
    /\ ret' = NoRet
    /\ UNCHANGED pureVars
    /\ UNCHANGED <<variant, inner, rounds, count, sumAdd>>
    /\ UNCHANGED syncVars
    /\ UNCHANGED slotVars

\* Faulty variant of Register: the slot is filled only when it is empty, so the
\* first registration stays.
RegisterKeepFirst(k, again) ==
    /\ wlock = NoTask
    /\ wlock' = k
    /\ waker' = IF waker = NoTask THEN k ELSE waker
    /\ lastReg' = k
    /\ tstate' = [tstate EXCEPT ![k] = IF again THEN "repolling" ELSE "polling"]
    /\ notified' = [notified EXCEPT ![k] = FALSE]
    /\ ret' = NoRet
    /\ UNCHANGED pureVars
    /\ UNCHANGED <<variant, inner, rounds, count, pc, val, taken, sumAdd, numDone, noops, woke>>
    /\ UNCHANGED syncVars

\* Faulty variant of Register: `*self.inner.waker.lock() = Some(waker)`, a
\* temporary guard that is dropped before the counter is read.
RegisterUnlocked(k, again) ==
    /\ wlock = NoTask
    /\ wlock' = NoTask
    /\ waker' = k
    /\ lastReg' = k
    /\ tstate' = [tstate EXCEPT ![k] = IF again THEN "repolling" ELSE "polling"]
    /\ notified' = [notified EXCEPT ![k] = FALSE]
    /\ ret' = NoRet
    /\ UNCHANGED pureVars
    /\ UNCHANGED <<variant, inner, rounds, count, pc, val, taken, sumAdd, numDone, noops, woke>>
    /\ UNCHANGED syncVars

\* WaitGroupFuture::poll, first half: cx.waker().clone(), g = waker.lock(),
\* *g = Some(waker). The guard g lives to the end of poll.
Register(k, again) ==
    /\ wlock = NoTask
    /\ wlock' = k
    /\ waker' = k
    /\ lastReg' = k
    /\ tstate' = [tstate EXCEPT ![k] = IF again THEN "repolling" ELSE "polling"]
    /\ notified' = [notified EXCEPT ![k] = FALSE]
    /\ ret' = NoRet
    /\ UNCHANGED pureVars
    /\ UNCHANGED <<variant, inner, rounds, count, pc, val, taken, sumAdd, numDone, noops, woke>>
    /\ UNCHANGED syncVars

\* wait().await: the scheduler polls the future, for the first time or
\* because its waker was invoked.
Poll(k) ==
    /\ variant = "async"
    /\ \/ tstate[k] = "idle"
       \/ tstate[k] = "pending" /\ notified[k]
    /\ Register(k, tstate[k] = "pending")

\* A poll nobody asked for: the Future contract allows the executor (or an
\* enclosing select / join) to poll a pending future at any time.
SpuriousPoll(k) ==
    /\ variant = "async"
    /\ tstate[k] = "pending"
    /\ ~notified[k]
    /\ Register(k, TRUE)

\* Faulty variant of PollCheck: Ready one unit early (`0 | 1 => Ready`).
PollCheckReadyEarly(k) ==
    /\ variant = "async"
    /\ tstate[k] \in {"polling", "repolling"}
    /\ wlock' = NoTask
    /\ IF count <= 1
       THEN /\ tstate' = [tstate EXCEPT ![k] = "idle"]
            /\ notified' = [notified EXCEPT ![k] = FALSE]
            /\ ret' = Returned("ready", k, tstate[k] = "repolling")
       ELSE /\ tstate' = [tstate EXCEPT ![k] = "pending"]
            /\ notified' = notified
            /\ ret' = Returned("pending", k, tstate[k] = "repolling")
    /\ UNCHANGED pureVars
    /\ UNCHANGED <<variant, inner, rounds, count, pc, val, waker, taken,
                   sumAdd, numDone, noops, woke, lastReg>>
    /\ UNCHANGED syncVars

\* Faulty variant of PollCheck: a poll that finds 0 empties the slot before it
\* returns Ready.
PollCheckClearsSlot(k) ==
    /\ variant = "async"
    /\ tstate[k] \in {"polling", "repolling"}
    /\ wlock' = NoTask
    /\ IF count = 0
       THEN /\ tstate' = [tstate EXCEPT ![k] = "idle"]
            /\ notified' = [notified EXCEPT ![k] = FALSE]
            /\ waker' = NoTask
            /\ ret' = Returned("ready", k, tstate[k] = "repolling")
       ELSE /\ tstate' = [tstate EXCEPT ![k] = "pending"]
            /\ notified' = notified
            /\ waker' = waker
            /\ ret' = Returned("pending", k, tstate[k] = "repolling")
    /\ UNCHANGED pureVars
    /\ UNCHANGED <<variant, inner, rounds, count, pc, val, taken,
                   sumAdd, numDone, noops, woke, lastReg>>
    /\ UNCHANGED syncVars

\* WaitGroupFuture::poll, second half: match count.load(Relaxed) { 0 => Ready,
\* _ => Pending }, then g is dropped.
PollCheck(k) ==
    /\ variant = "async"
    /\ tstate[k] \in {"polling", "repolling"}
    /\ wlock' = NoTask
    /\ IF count = 0
       THEN /\ tstate' = [tstate EXCEPT ![k] = "idle"]
            /\ notified' = [notified EXCEPT ![k] = FALSE]
            /\ ret' = Returned("ready", k, tstate[k] = "repolling")
       ELSE /\ tstate' = [tstate EXCEPT ![k] = "pending"]
            /\ notified' = notified
            /\ ret' = Returned("pending", k, tstate[k] = "repolling")
    /\ UNCHANGED pureVars
    /\ UNCHANGED <<variant, inner, rounds, count, pc, val, waker, taken,
                   sumAdd, numDone, noops, woke, lastReg>>
    /\ UNCHANGED syncVars

\* The pending future is dropped (its task was cancelled, or a select / timeout
\* around it finished first). Nothing unregisters its waker: WaitGroupFuture
\* has no Drop.
Abandon(k) ==
    /\ variant = "async"
    /\ tstate[k] = "pending"
    /\ tstate' = [tstate EXCEPT ![k] = "idle"]
    /\ notified' = [notified EXCEPT ![k] = FALSE]
    /\ ret' = NoRet
    /\ UNCHANGED pureVars
    /\ UNCHANGED <<variant, inner, rounds, count, pc, val, waker, wlock, taken,
                   sumAdd, numDone, noops, woke, lastReg>>
    /\ UNCHANGED syncVars

NextAsync ==
    \/ \E t \in Workers :
        \/ AsyncAdd(t)
        \/ AsyncWaitings(t)
        \/ \E u \in Workers : AsyncClone(t, u)
        \/ AsyncDoneLoad(t)
        \/ AsyncDoneTake(t)
        \/ AsyncDoneWake(t)
        \/ AsyncDoneCas(t)
        \/ AsyncDoneCasSpurious(t)
    \/ \E k \in Tasks :
        \/ Poll(k)
        \/ SpuriousPoll(k)
        \/ PollCheck(k)
        \/ Abandon(k)

Next == NextSync \/ NextAsync

InitSync == Init /\ variant = "sync"
InitAsync == Init /\ variant = "async"

Spec == Init /\ [][Next]_vars
SyncSpec == InitSync /\ [][NextSync]_vars

\* Threads are scheduled and the mutex is handed over fairly: a thread inside
\* done() finishes it, and a woken thread that keeps finding the mutex free
\* again and again gets it. Nothing makes a thread start a call, and nothing
\* promises a spurious wakeup.
SyncFairness ==
    \A t \in Threads : WF_vars(DoneStore(t)) /\ SF_vars(WaitReacquire(t))
FairSyncSpec == SyncSpec /\ SyncFairness
AsyncSpec == InitAsync /\ [][NextAsync]_vars

\* The WaitGroup with its waiters in place early: wait is called only before
\* the count has first been taken to 0, and the condvar never wakes a thread
\* spuriously, so a parked thread is woken only by the notify_all of a done().
NotifiedNext ==
    \E t \in Threads :
        \/ Add(t)
        \/ DoneEval(t)
        \/ DoneStore(t)
        \/ Waitings(t)
        \/ \E u \in Threads : Clone(t, u)
        \/ rounds = 0 /\ Wait(t)
        \/ WaitReacquire(t)
NotifiedSpec == InitSync /\ [][NotifiedNext]_vars

\* The AsyncWaitGroup with the history of which done() invoked a waker.
NotedNextAsync ==
    \/ \E t \in Workers :
        \/ AsyncAdd(t)
        \/ AsyncWaitings(t)
        \/ \E u \in Workers : AsyncClone(t, u)
        \/ AsyncDoneLoad(t)
        \/ AsyncDoneTake(t)
        \/ AsyncDoneWakeNoted(t)
        \/ AsyncDoneCas(t)
        \/ AsyncDoneCasSpurious(t)
    \/ \E k \in Tasks :
        \/ Poll(k)
        \/ SpuriousPoll(k)
        \/ PollCheck(k)
        \/ Abandon(k)
NotedAsyncSpec == InitAsync /\ [][NotedNextAsync]_vars

\* The way test_async_wait_group uses the group: every add completes before
\* wait is first polled, one done() per added unit, one task awaits the group,
\* and that task is polled when it starts to await and when its waker has
\* been invoked.
ProtocolNext ==
    \/ \E t \in Workers :
        \/ lastReg = NoTask /\ AsyncAdd(t)
        \/ numDone + DonesInFlight < sumAdd /\ AsyncDoneLoad(t)
        \/ AsyncDoneTake(t)
        \/ AsyncDoneWake(t)
        \/ AsyncDoneCas(t)
        \/ AsyncDoneCasSpurious(t)
    \/ \E k \in Tasks :
        \/ lastReg \in {NoTask, k} /\ Poll(k)
        \/ PollCheck(k)
ProtocolSpec == InitAsync /\ [][ProtocolNext]_vars

\* The way test_sync_wait_group_nested and test_async_wait_group_nested use
\* the group: a top-level add(1) for a unit of work; a unit that has not yet
\* called done() may add(1) for a unit it spawns; every unit calls done()
\* once; wait is issued after the top-level add.
UnitsAlive == numDone + DonesInFlight < sumAdd
NestedNext ==
    \/ \E t \in Threads :
        \/ sumAdd = 0 /\ Add(t) /\ sumAdd' = 1
        \/ UnitsAlive /\ Add(t) /\ sumAdd' = sumAdd + 1
        \/ UnitsAlive /\ DoneEval(t)
        \/ DoneStore(t)
        \/ sumAdd >= 1 /\ Wait(t)
        \/ SpuriousWake(t)
        \/ WaitReacquire(t)
    \/ \E t \in Workers :
        \/ sumAdd = 0 /\ AsyncAdd(t) /\ sumAdd' = 1
        \/ UnitsAlive /\ AsyncAdd(t) /\ sumAdd' = sumAdd + 1
        \/ UnitsAlive /\ AsyncDoneLoad(t)
        \/ AsyncDoneTake(t)
        \/ AsyncDoneWake(t)
        \/ AsyncDoneCas(t)
        \/ AsyncDoneCasSpurious(t)
    \/ \E k \in Tasks :
        \/ sumAdd >= 1 /\ Poll(k)
        \/ SpuriousPoll(k)
        \/ PollCheck(k)
NestedSpec == Init /\ [][NestedNext]_vars

\* The AsyncWaitGroup used so that every wait is abandoned: a done() begins
\* when no other done() and no poll is in progress, and until it returns
\* nothing else begins; a task polls only while the count is above 0, so it
\* is told Pending, and it stops awaiting only by dropping its future.
AbandonNext ==
    \/ \E t \in Workers :
        \/ DonesInFlight = 0 /\ AsyncAdd(t)
        \/ DonesInFlight = 0 /\ AsyncWaitings(t)
        \/ DonesInFlight = 0 /\ \E u \in Workers : AsyncClone(t, u)
        \/ DonesInFlight = 0 /\ wlock = NoTask /\ AsyncDoneLoad(t)
        \/ AsyncDoneTake(t)
        \/ AsyncDoneWake(t)
        \/ AsyncDoneCas(t)
        \/ AsyncDoneCasSpurious(t)
    \/ \E k \in Tasks :
        \/ DonesInFlight = 0 /\ count > 0 /\ Poll(k)
        \/ DonesInFlight = 0 /\ count > 0 /\ SpuriousPoll(k)
        \/ PollCheck(k)
        \/ DonesInFlight = 0 /\ Abandon(k)
AbandonSpec == InitAsync /\ [][AbandonNext]_vars

\* ------------------------------------------------------------------- Debug
\* usize's Debug output: the decimal digits of n, most significant first.
Digit == <<"0", "1", "2", "3", "4", "5", "6", "7", "8", "9">>
RECURSIVE Decimal(_)
Decimal(n) ==
    IF n < 10 THEN <<Digit[n + 1]>>
    ELSE Decimal(n \div 10) \o <<Digit[(n % 10) + 1]>>

\* f.debug_struct(name).field("count", &count).finish(): `name { count: n }`.
DebugStruct(name, n) == <<name, " { ", "count", ": ">> \o Decimal(n) \o <<" }">>

\* The rendering returned by the previous call, if that call was a fmt and
\* nothing has run since.
PrevFmt == IF ret.call = "fmt" THEN ret.value[2] ELSE <<>>

\* Faulty variant of Fmt: the rendering shows 0 through every handle but the
\* caller's own.
FmtOwnOnly(t) ==
    /\ variant = "sync"
    /\ pc[t] = "idle"
    /\ lock = NoThread
    /\ ret' = Returned("fmt", <<PrevFmt, DebugStruct("WaitGroup",
                                   IF t = 1 THEN CountVia(inner[t]) ELSE 0)>>, FALSE)
    /\ UNCHANGED pureVars
    /\ UNCHANGED <<variant, inner, rounds, count, lock, cvar, pc, val, sumAdd,
                   numDone, noops, settled>>
    /\ UNCHANGED asyncVars

\* Debug for WaitGroup: locks the count mutex, renders the count read through
\* this handle, and drops the guard on return.
Fmt(t) ==
    /\ variant = "sync"
    /\ pc[t] = "idle"
    /\ lock = NoThread
    /\ ret' = Returned("fmt", <<PrevFmt, DebugStruct("WaitGroup",
                                   CountVia(inner[t]))>>, FALSE)
    /\ UNCHANGED pureVars
    /\ UNCHANGED <<variant, inner, rounds, count, lock, cvar, pc, val, sumAdd,
                   numDone, noops, settled>>
    /\ UNCHANGED asyncVars

\* Debug for AsyncWaitGroup: renders self.inner.count.load(Relaxed).
AsyncFmt(t) ==
    /\ variant = "async"
    /\ pc[t] = "idle"
    /\ ret' = Returned("fmt", <<PrevFmt, DebugStruct("AsyncWaitGroup",
                                   CountVia(inner[t]))>>, FALSE)
    /\ UNCHANGED pureVars
    /\ UNCHANGED <<variant, inner, rounds, count, pc, val, sumAdd, numDone, noops>>
    /\ UNCHANGED syncVars
    /\ UNCHANGED asyncVars

\* The groups with their handles also rendered by {:?}.
DebugNext ==
    \/ Next
    \/ \E t \in Threads : Fmt(t)
    \/ \E t \in Workers : AsyncFmt(t)

DebugSpec == Init /\ [][DebugNext]_vars

\* ----------------------------------------------------------- slice helpers
\* lazyext-slice/src/lib.rs: has_prefix!, has_suffix!, longest_prefix!,
\* longest_suffix! (lazyext-bytes/src/bytes_ext.rs has the same bodies).
MaxLen == 3       \* longest slice drawn as an input
MaxElem == 1      \* elements are 0..MaxElem
Elems == 0..MaxElem
Slices == UNION {[1..n -> Elems] : n \in 0..MaxLen}

groupVars == <<variant, inner, count, lock, cvar, pc, val, ret, waker, wlock,
               taken, tstate, notified, sumAdd, numDone, noops, settled,
               lastReg, rounds, woke>>

\* usize::MAX, scaled down: any value above every slice length gives the same
\* outcomes.
UsizeMax == 65535

\* A call returned v / panicked.
Ok(v) == [panic |-> FALSE, value |-> v]
Panic == [panic |-> TRUE, value |-> <<>>]

\* a - b on usize with overflow checks off (release builds): wraps around.
\* With overflow checks on (debug builds) b > a panics.
WrappingSub(a, b) == (a - b + UsizeMax + 1) % (UsizeMax + 1)

\* &s[from..to]: indices count from 0, `to` is excluded.
Slice(s, from, to) == SubSeq(s, from + 1, to)

\* The smallest member of a non-empty set of numbers: the i at which a
\* `for i in 0..max { if .. { n = i; break; } }` loop breaks.
Least(S) == CHOOSE x \in S : \A y \in S : x <= y

\* Faulty variant of HasPrefix: no `src.len() < pl` test before slicing.
HasPrefixUnguarded(s, prefix) ==
    LET pl == Len(prefix)
    IN  IF pl > Len(s) THEN Panic ELSE Ok(Slice(s, 0, pl) = prefix)

\* has_prefix: pl = prefix.len(); false if src.len() < pl; src[0..pl] == prefix.
HasPrefix(s, prefix) ==
    LET pl == Len(prefix)
    IN  IF Len(s) < pl THEN Ok(FALSE) ELSE Ok(Slice(s, 0, pl) = prefix)

\* has_suffix: pl = suffix.len() - 1; false if src.len() <= pl;
\* src[pl..] == suffix. checks: the build has overflow checks on.
HasSuffix(s, suffix, checks) ==
    IF checks /\ Len(suffix) < 1 THEN Panic
    ELSE LET pl == WrappingSub(Len(suffix), 1)
         IN  IF Len(s) <= pl THEN Ok(FALSE)
             ELSE Ok(Slice(s, pl, Len(s)) = suffix)

\* longest_prefix: max = min of the lengths; n = max - 1; n = the first i in
\* 0..max with k1[i] != k2[i] if there is one; &k1[..n], which panics when n
\* is past the end of k1.
LongestPrefix(k1, k2, checks) ==
    LET max == IF Len(k1) <= Len(k2) THEN Len(k1) ELSE Len(k2)
        ne == {i \in 0..(max - 1) : k1[i + 1] # k2[i + 1]}
    IN  IF checks /\ max < 1 THEN Panic
        ELSE LET n == IF ne # {} THEN Least(ne) ELSE WrappingSub(max, 1)
             IN  IF n > Len(k1) THEN Panic ELSE Ok(Slice(k1, 0, n))

\* Faulty variant of LongestSuffix: the second branch starts the slice at
\* max - n, as the first branch does.
LongestSuffixSameStart(k1, k2) ==
    LET k1_len == Len(k1)
        k2_len == Len(k2)
        max == IF k1_len < k2_len THEN k1_len ELSE k2_len
        ne == {i \in 0..(max - 1) : k1[k1_len - i] # k2[k2_len - i]}
        n == IF ne # {} THEN Least(ne) ELSE max
    IN  Ok(Slice(k1, max - n, k1_len))

\* longest_suffix: with max the smaller length, n = max, or the first i in
\* 0..max with k1[k1_len - i - 1] != k2[k2_len - i - 1]; the result is
\* &k1[max - n..] when k1 is the shorter and &k1[k1_len - k2_len + max - n..]
\* otherwise.
LongestSuffix(k1, k2) ==
    LET k1_len == Len(k1)
        k2_len == Len(k2)
        max == IF k1_len < k2_len THEN k1_len ELSE k2_len
        ne == {i \in 0..(max - 1) : k1[k1_len - i] # k2[k2_len - i]}
        n == IF ne # {} THEN Least(ne) ELSE max
    IN  IF k1_len < k2_len
        THEN Ok(Slice(k1, max - n, k1_len))
        ELSE Ok(Slice(k1, k1_len - k2_len + max - n, k1_len))

\* The inputs of one call: any two slices.
SliceInit ==
    /\ GroupInit
    /\ variant = "sync"
    /\ called = "none"
    /\ src \in Slices
    /\ other \in Slices
    /\ res = NoRes

\* src.has_prefix(other)
CallHasPrefix ==
    /\ called = "none"
    /\ called' = "has_prefix"
    /\ res' = HasPrefix(src, other)
    /\ UNCHANGED <<src, other>>
    /\ UNCHANGED groupVars

\* src.has_suffix(other), in a build with or without overflow checks
CallHasSuffix ==
    /\ called = "none"
    /\ called' = "has_suffix"
    /\ \E checks \in BOOLEAN : res' = HasSuffix(src, other, checks)
    /\ UNCHANGED <<src, other>>
    /\ UNCHANGED groupVars

\* src.longest_prefix(other), in a build with or without overflow checks
CallLongestPrefix ==
    /\ called = "none"
    /\ called' = "longest_prefix"
    /\ \E checks \in BOOLEAN : res' = LongestPrefix(src, other, checks)
    /\ UNCHANGED <<src, other>>
    /\ UNCHANGED groupVars

\* src.longest_suffix(other)
CallLongestSuffix ==
    /\ called = "none"
    /\ called' = "longest_suffix"
    /\ res' = LongestSuffix(src, other)
    /\ UNCHANGED <<src, other>>
    /\ UNCHANGED groupVars

SliceNext ==
    \/ CallHasPrefix
    \/ CallHasSuffix
    \/ CallLongestPrefix
    \/ CallLongestSuffix

SliceSpec == SliceInit /\ [][SliceNext]_vars

\* ------------------------------------------------------- byte conversions
\* lazyext-slice/src/bytes_ext.rs: to_be_<ty>_vec / to_le_<ty>_vec, built by
\* to_x_vec_impl_suite! from to_x_vec_impl!.
MaxBytes == 4     \* longest byte slice drawn as an input
MaxByte == 2      \* bytes are 0..MaxByte
ByteSlices == UNION {[1..n -> 0..MaxByte] : n \in 0..MaxBytes}

\* mem::size_of::<$typ>() of the integer types modelled.
SizeOf == [i8 |-> 1, u16 |-> 2, u32 |-> 4, u64 |-> 8]

\* The types whose values the byte conversions are checked for.
Types == {"u16", "u32"}

\* $typ::from_be_bytes: the first byte is the most significant.
RECURSIVE FromBeBytes(_)
FromBeBytes(arr) ==
    IF arr = <<>> THEN 0
    ELSE FromBeBytes(SubSeq(arr, 1, Len(arr) - 1)) * 256 + arr[Len(arr)]

\* $typ::from_le_bytes: the first byte is the least significant.
RECURSIVE FromLeBytes(_)
FromLeBytes(arr) ==
    IF arr = <<>> THEN 0 ELSE arr[1] + 256 * FromLeBytes(Tail(arr))

\* Faulty variant of ToXVec: no length assertion; the trailing bytes that do
\* not fill a value are dropped.
ToXVecNoAssert(bytes, ty, conv) ==
    LET SIZE == SizeOf[ty]
        n == Len(bytes) \div SIZE
        arr(j) == SubSeq(bytes, (j - 1) * SIZE + 1, j * SIZE)
    IN  Ok([j \in 1..n |-> IF conv = "be" THEN FromBeBytes(arr(j))
                                           ELSE FromLeBytes(arr(j))])

\* to_x_vec_impl!: assert_eq!(src.len() % SIZE, 0); then for every v in
\* (0..src.len()).step_by(SIZE) the SIZE bytes at v are converted, in order.
ToXVec(bytes, ty, conv) ==
    LET SIZE == SizeOf[ty]
        starts == {v \in 0..(Len(bytes) - 1) : v % SIZE = 0}
        arr(j) == SubSeq(bytes, (j - 1) * SIZE + 1, j * SIZE)
    IN  IF Len(bytes) % SIZE # 0 THEN Panic
        ELSE Ok([j \in 1..Cardinality(starts) |->
                    IF conv = "be" THEN FromBeBytes(arr(j))
                                   ELSE FromLeBytes(arr(j))])

\* The name of the method for a type and a byte order.
VecFn == [be |-> [u16 |-> "to_be_u16_vec", u32 |-> "to_be_u32_vec"],
          le |-> [u16 |-> "to_le_u16_vec", u32 |-> "to_le_u32_vec"]]

\* The input of one call: any byte slice.
BytesInit ==
    /\ GroupInit
    /\ variant = "sync"
    /\ called = "none"
    /\ src \in ByteSlices
    /\ other = <<>>
    /\ res = NoRes

\* src.to_be_<ty>_vec()
CallToBeVec(ty) ==
    /\ called = "none"
    /\ called' = VecFn.be[ty]
    /\ res' = ToXVec(src, ty, "be")
    /\ UNCHANGED <<src, other>>
    /\ UNCHANGED groupVars

\* src.to_le_<ty>_vec()
CallToLeVec(ty) ==
    /\ called = "none"
    /\ called' = VecFn.le[ty]
    /\ res' = ToXVec(src, ty, "le")
    /\ UNCHANGED <<src, other>>
    /\ UNCHANGED groupVars

BytesNext == \E ty \in Types : CallToBeVec(ty) \/ CallToLeVec(ty)

BytesSpec == BytesInit /\ [][BytesNext]_vars

\* ------------------------------------------------- slice reinterpretation
\* lazyext-slice/src/slice_ext.rs: to_u8_slice and to_<ty>_slice of the
\* <S>SliceExt traits. Only the element type and the length of a slice
\* matter here: src is [ty |-> S, len |-> k].
MaxCount == 12    \* longest typed slice drawn as an input
SliceTypes == DOMAIN SizeOf

\* impl_x_to_u8_slice!: len = src.len() * size_of::<S>(), the slice of that
\* many u8 at src's address. The value is the number of elements.
ToU8Slice(s) == Ok(s.len * SizeOf[s.ty])

\* impl_to_x_slice_suite_in! as the traits use it, with to_u8_slice for
\* $trait::$fn: src = self.to_u8_slice(), len = src.len() * size_of::<$ty>(),
\* from_raw_parts(src_ptr as *const $ty, len). The value is the number of
\* elements of the slice returned.
ToXSlice(s, ty) == Ok(ToU8Slice(s).value * SizeOf[ty])

\* The name of the method for a target type.
SliceFn == [i8 |-> "to_i8_slice", u16 |-> "to_u16_slice",
            u32 |-> "to_u32_slice", u64 |-> "to_u64_slice"]

\* The input of one call: a slice of any of the types, of any length.
TypedInit ==
    /\ GroupInit
    /\ variant = "sync"
    /\ called = "none"
    /\ src \in [ty : SliceTypes, len : 0..MaxCount]
    /\ other = <<>>
    /\ res = NoRes

\* src.to_u8_slice()
CallToU8Slice ==
    /\ called = "none"
    /\ called' = "to_u8_slice"
    /\ res' = ToU8Slice(src)
    /\ UNCHANGED <<src, other>>
    /\ UNCHANGED groupVars

\* src.to_<ty>_slice(), for a type other than src's own
CallToXSlice(ty) ==
    /\ called = "none"
    /\ ty # src.ty
    /\ called' = SliceFn[ty]
    /\ res' = ToXSlice(src, ty)
    /\ UNCHANGED <<src, other>>
    /\ UNCHANGED groupVars

TypedNext == CallToU8Slice \/ \E ty \in SliceTypes : CallToXSlice(ty)

TypedSpec == TypedInit /\ [][TypedNext]_vars

\* ================================================================== claims
InWait(t) == pc[t] \in {"parked", "woken"}
Waiters == {t \in Threads : InWait(t)}
Quiescent == DonesInFlight = 0

\* C1: the blocking wait returns only where the caller, holding the count
\* mutex, reads count == 0: right after any return of wait (at entry or after
\* a wakeup, spurious or not) the count is 0, the mutex has been released by
\* the returning thread and that thread is out of the condvar.
C1_WaitReturnsOnlyAtZero ==
    ret.call = "wait" =>
        /\ count = 0
        /\ lock = NoThread
        /\ pc[ret.value] = "idle"
        /\ ret.value \notin cvar

\* C1 witness: a wait that had parked has returned, after as many done() as
\* were added.
C1_Witness ==
    /\ ret.call = "wait"
    /\ ret.blocked
    /\ sumAdd = 2
    /\ numDone = 2

\* C3: a thread inside the blocking wait at a moment where the count is 0
\* returns from wait, unless an add raises the count again first.
C3_ParkedWaiterReturns ==
    \A t \in Threads : (InWait(t) /\ count = 0) ~> (pc[t] = "idle" \/ count > 0)

\* C3 witness: a thread that parked has been woken and the count is 0.
C3_Witness ==
    \E t \in Threads : pc[t] = "woken" /\ count = 0 /\ numDone = 1 /\ noops = 0

\* C4: when the count is 0 and k >= 1 threads are inside wait, all k of them
\* get out (no thread is left parked or woken), unless an add raises the
\* count again first.
C4_ReleaseAll ==
    (count = 0 /\ Waiters # {}) ~> (Waiters = {} \/ count > 0)

\* C4 witness: two threads had parked, one done() took the count from 1 to 0
\* and both are woken.
C4_Witness ==
    /\ count = 0
    /\ Cardinality({t \in Threads : pc[t] = "woken"}) >= 2
    /\ numDone = 1
    /\ lock = NoThread

\* C7: counting scenario of the blocking variant. When wait returns and every
\* done() so far found work to finish (one done() per added unit), as many
\* done() calls have completed as were added; and a waitings() call made
\* after a wait returned, with no add since, returns 0.
C7_CountingScenario ==
    /\ (ret.call = "wait" /\ noops = 0) => (numDone = sumAdd /\ Quiescent)
    /\ (ret.call = "waitings" /\ settled # {}) => ret.value = 0

\* C7 witness: add totalling 2, two done(), a wait that returned, then
\* waitings() read 0.
C7_Witness ==
    /\ variant = "sync"
    /\ ret.call = "waitings"
    /\ ret.value = 0
    /\ settled # {}
    /\ sumAdd = 2
    /\ numDone = 2
    /\ noops = 0

\* C2: single waiter, adds before the first poll, one done() per unit: once
\* every done() has returned and the count is 0, the waiter is not left
\* suspended without its waker having been invoked (nobody would poll it
\* again, the future would never resolve).
C2_SingleWaiterResolves ==
    \A k \in Tasks :
        (count = 0 /\ Quiescent /\ numDone = sumAdd)
            => ~(tstate[k] = "pending" /\ ~notified[k])

\* C5: when the done() that read 1 invokes the waker it took, and no task has
\* registered since it took it, every task suspended in wait is released.
C5_ReleaseAllTasks ==
    [][\A t \in Workers :
        (pc[t] = "done_wake" /\ pc'[t] = "done_cas" /\ lastReg = taken[t])
            => \A k \in Tasks : tstate[k] = "pending" => notified'[k]]_vars

C8_ReadyOnlyAtZero ==
    /\ ret.call = "ready" => count = 0
    /\ ret.call = "pending" => count > 0
    /\ (ret.call = "ready" /\ noops = 0) => numDone = sumAdd

\* C8 witness: a task that had been told Pending is Ready after adds
\* totalling 2 and two done().
C8_Witness ==
    /\ ret.call = "ready"
    /\ ret.blocked
    /\ sumAdd = 2
    /\ numDone = 2
    /\ noops = 0

\* C9: in both variants the count is never below 0 nor above what was added,
\* waitings() never returns anything outside that range, and a done() that
\* found 0 leaves 0 behind.
C9_NoUnderflow ==
    /\ count \in 0..sumAdd
    /\ ret.call = "waitings" => ret.value \in 0..sumAdd
    /\ \A t \in Threads : pc[t] \in DonePcs => val[t] \in 0..sumAdd

\* C9 witness: two done() on a fresh group, then waitings() read 0.
C9_Witness ==
    /\ variant = "async"
    /\ sumAdd = 0
    /\ noops = 2
    /\ ret.call = "waitings"
    /\ ret.value = 0

\* C10 as stated: with no done() in flight, count is the sum of the add
\* arguments minus the number of done() calls, floored at 0.
C10_Original ==
    Quiescent =>
        count = IF sumAdd >= numDone THEN sumAdd - numDone ELSE 0

\* C10 amended: with no done() in flight, count is the sum of the add
\* arguments minus the number of done() calls that found the count above 0.
C10_CountRelation ==
    Quiescent => count = sumAdd - (numDone - noops)

\* C10 witness: a done() on the empty group, then an add: the count is what
\* was added.
C10_Witness ==
    /\ variant = "sync"
    /\ Quiescent
    /\ noops = 1
    /\ numDone = 1
    /\ sumAdd = 2
    /\ count = 2

\* C11: in both variants every change of the count is the effect of exactly
\* one add or one done() applied to the current value, and every completing
\* call takes effect in one step inside its own duration: a completing
\* add(n) raises the current count by n, a completing done() lowers the
\* current count by one or leaves 0 at 0. No update is lost or applied to a
\* stale value.
C11_Linearizable ==
    [][/\ count' # count =>
            \/ /\ count' - count = sumAdd' - sumAdd
               /\ numDone' = numDone
            \/ /\ count' = count - 1
               /\ numDone' = numDone + 1
               /\ sumAdd' = sumAdd
       /\ sumAdd' # sumAdd =>
            /\ sumAdd' > sumAdd
            /\ count' - count = sumAdd' - sumAdd
       /\ numDone' # numDone =>
            /\ numDone' = numDone + 1
            /\ count' = IF count = 0 THEN 0 ELSE count - 1
            /\ noops' = IF count = 0 THEN noops + 1 ELSE noops]_vars

\* C11 witness: a done() of the suspending variant is about to compare-exchange
\* against a count that an add and another done() have changed since it read
\* it.
C11_Witness ==
    /\ variant = "async"
    /\ \E t \in Workers : pc[t] = "done_cas" /\ val[t] # count
    /\ sumAdd = 2
    /\ numDone = 1

\* C12: a done() that has invoked a waker returns by the compare-exchange
\* that takes the count from 1 to 0, and by no other update nor by giving up.
C12_WakeOnlyByLastDone ==
    [][\A t \in Workers :
        (woke[t] /\ pc[t] \in DonePcs /\ pc'[t] = "idle")
            => (count = 1 /\ count' = 0)]_vars

\* C13: a done() comes to hold a waker only by taking it out of the slot,
\* with the waker mutex free, in a step that leaves the slot empty and gives
\* the waker to no other done(); it gives it up only by invoking it; and a
\* task is notified only in the step in which a done() gives up the waker it
\* held for that task. So a registered waker is invoked at most once.
C13_InvokedAtMostOnce ==
    [][/\ \A t \in Workers :
            taken'[t] # taken[t] =>
                \/ /\ taken[t] = NoTask
                   /\ wlock = NoTask
                   /\ taken'[t] = waker
                   /\ waker' = NoTask
                   /\ \A u \in Workers \ {t} : taken'[u] = taken[u]
                \/ /\ taken'[t] = NoTask
                   /\ waker' = waker
                   /\ \A u \in Workers \ {t} : taken'[u] = taken[u]
       /\ \A k \in Tasks :
            (notified'[k] /\ ~notified[k]) =>
                \E t \in Workers : taken[t] = k /\ taken'[t] = NoTask]_vars

\* C13 witness: two done() calls both read 1; one took the registered waker
\* and is about to invoke it, the other found the slot empty.
C13_Witness ==
    \E t, u \in Workers :
        /\ pc[t] = "done_wake"
        /\ taken[t] # NoTask
        /\ pc[u] = "done_cas"
        /\ val[u] = 1
        /\ taken[u] = NoTask
        /\ waker = NoTask
        /\ count = 1

\* C14: reuse, both variants. At every return of wait (blocking) and every
\* Ready (suspending), in the first cycle or a later one, with no more done()
\* calls made than units added: the count is 0, every done() has completed and as many
\* done() as units added, and if anything was added a done() has taken the
\* count to 0. In every cycle the count is what was added minus the done()
\* calls completed, and it has not been taken to 0 more often than done()
\* calls took effect.
C14_Reuse ==
    /\ (/\ ret.call \in {"wait", "ready"}
        /\ noops = 0
        /\ numDone + DonesInFlight <= sumAdd) =>
            /\ count = 0
            /\ Quiescent
            /\ numDone = sumAdd
            /\ sumAdd > 0 => rounds >= 1
    /\ noops = 0 => count = sumAdd - numDone
    /\ rounds <= numDone - noops

\* C14 witness: add(1), done(), add(1), done(): the count went to 0 twice, and
\* a wait that had to block has returned after the second cycle.
C14_Witness ==
    /\ ret.call \in {"wait", "ready"}
    /\ ret.blocked
    /\ rounds = 2
    /\ sumAdd = 2
    /\ numDone = 2
    /\ noops = 0

\* C15: nested work, both variants. While a unit or a unit spawned by a unit
\* has yet to complete its done(), the count is above 0; a wait issued after
\* the top-level add returns (blocking) or is Ready (suspending) only when
\* every done() has completed, as many as units were added at any level.
C15_NestedWork ==
    /\ count = 0 => (sumAdd = 0 \/ numDone = sumAdd)
    /\ ret.call \in {"wait", "ready"} =>
            /\ sumAdd >= 1
            /\ numDone = sumAdd
            /\ Quiescent
    /\ noops = 0

\* C15 witness: the unit added a unit of its own and has completed its done();
\* the count is 1 and a waiter is still parked or pending.
C15_Witness ==
    /\ sumAdd = 2
    /\ numDone = 1
    /\ Quiescent
    /\ count = 1
    /\ \/ \E t \in Threads : pc[t] = "parked"
       \/ \E k \in Tasks : tstate[k] = "pending" /\ ~notified[k]

\* C16: in both variants every handle, whether made by new, by clone or
\* returned by add, holds the one allocation of the group, and waitings()
\* through any handle returns the one count, which every add and done()
\* through any handle has changed.
C16_HandlesShareState ==
    /\ \A t \in Threads : inner[t] = TheInner
    /\ ret.call = "waitings" => ret.value = count

\* C16 witness: after adds totalling 2 and one done(), through whichever
\* handles, waitings() through a handle reads 1.
C16_Witness ==
    /\ ret.call = "waitings"
    /\ ret.value = 1
    /\ sumAdd = 2
    /\ numDone = 1
    /\ noops = 0

\* C17: in both variants no step taken while the count is 0 parks a thread on
\* the condvar or tells a task Pending: a wait that tests the count at 0
\* returns, a poll that reads 0 is Ready, however often this is repeated.
C17_NoBlockingAtZero ==
    [][count = 0 =>
        /\ \A t \in Threads : pc'[t] = "parked" => pc[t] = "parked"
        /\ cvar' \subseteq cvar
        /\ \A k \in Tasks : tstate'[k] = "pending" => tstate[k] = "pending"
        /\ ret'.call # "pending"]_vars

\* C17 witness: on a group whose count has stayed 0, wait calls of two
\* threads have returned without parking.
C17_Witness ==
    /\ variant = "sync"
    /\ sumAdd = 0
    /\ ret.call = "wait"
    /\ ~ret.blocked
    /\ Cardinality(settled) >= 2

\* C18: in both variants, as long as no done() has been called, waitings()
\* returns the total of the add arguments so far: 0 on a new group, and n
\* more after each add(n).
C18_AddWaitings ==
    (ret.call = "waitings" /\ numDone = 0 /\ Quiescent) => ret.value = sumAdd

\* C18 witness: adds totalling 2, no done(), and waitings() returned 2.
C18_Witness ==
    /\ ret.call = "waitings"
    /\ ret.value = 2
    /\ sumAdd = 2
    /\ numDone = 0
    /\ Quiescent

\* C19: in both variants a step that is an add(0) leaves the count, the
\* mutex, the threads parked on the condvar, every thread's and task's
\* position, the waker slot and the notifications as they were: nothing is
\* changed and nobody is woken.
C19_AddZeroNoOp ==
    [][\A t \in Threads :
        (AddNum(t, 0) \/ (t \in Workers /\ AsyncAddNum(t, 0))) =>
            UNCHANGED <<count, lock, cvar, pc, val, waker, wlock, taken,
                        tstate, notified, sumAdd, numDone, noops, settled>>]_vars

\* C19 witness: a thread is parked in wait, the latest call returned nothing,
\* and add(0) can be called.
C19_Witness ==
    /\ variant = "sync"
    /\ cvar # {}
    /\ ret = NoRet
    /\ \E t \in Threads : ENABLED AddNum(t, 0)

\* C20: when {:?} is applied to two handles of the group with nothing running
\* in between, in particular at a quiescent point, the two renderings are the
\* same text, and every rendering is `WaitGroup { count: n }` or
\* `AsyncWaitGroup { count: n }` with n the decimal digits of the current
\* count, whichever handles the adds went through.
C20_DebugSameThroughHandles ==
    ret.call = "fmt" =>
        /\ ret.value[2] = DebugStruct(IF variant = "sync" THEN "WaitGroup"
                                      ELSE "AsyncWaitGroup", count)
        /\ ret.value[2][5] = Digit[count + 1]
        /\ ret.value[1] # <<>> => ret.value[1] = ret.value[2]

\* C20 witness: as in test_clone_and_fmt, after adds have raised the count to
\* MaxAdd, two renderings in a row at a quiescent point.
C20_Witness ==
    /\ ret.call = "fmt"
    /\ ret.value[1] # <<>>
    /\ count = MaxAdd
    /\ numDone = 0
    /\ Quiescent

\* The slot holds the waker of a task that does not await the group. Under
\* AbandonSpec that is a task that was told Pending and dropped its future.
StaleWaker == waker # NoTask /\ tstate[waker] = "idle"

\* C21: with each done() run on its own and every wait abandoned, whenever a
\* done() returns, whatever count it found, the slot holds no waker of an
\* abandoned task: a stale waker that was there when the done() began has
\* been removed.
C21_StaleRemovedByNextDone ==
    [][(\E t \in Workers : pc'[t] = "idle" /\ numDone' = numDone + 1)
            => ~StaleWaker']_vars

\* C22: has_suffix(src, suffix) returns, and returns true exactly when src
\* ends with suffix: len(suffix) <= len(src) and the last len(suffix)
\* elements of src are suffix.
C22_HasSuffixIffEndsWith ==
    called = "has_suffix" =>
        /\ ~res.panic
        /\ res.value = (/\ Len(other) <= Len(src)
                        /\ SubSeq(src, Len(src) - Len(other) + 1, Len(src)) = other)

\* C23: longest_prefix(a, b) returns a[0..n] with n the largest number, at
\* most both lengths, such that a[i] = b[i] for every i < n.
C23_LongestSharedPrefix ==
    called = "longest_prefix" =>
        LET Shared(n) == \A i \in 1..n : src[i] = other[i]
            lens == {n \in 0..Len(src) : n <= Len(other) /\ Shared(n)}
            best == CHOOSE n \in lens : \A m \in lens : m <= n
        IN  /\ ~res.panic
            /\ res.value = SubSeq(src, 1, best)

\* C24: longest_suffix(a, b) returns the longest slice that ends both a and
\* b, as the end of a, and longest_suffix(b, a) has the same length.
C24_LongestSharedSuffix ==
    called = "longest_suffix" =>
        LET Ends(s, n) == SubSeq(s, Len(s) - n + 1, Len(s))
            lens == {n \in 0..Len(src) : n <= Len(other) /\ Ends(src, n) = Ends(other, n)}
            best == CHOOSE n \in lens : \A m \in lens : m <= n
        IN  /\ ~res.panic
            /\ res.value = Ends(src, best)
            /\ Len(LongestSuffix(other, src).value) = Len(res.value)

\* C24 witness: the receiver is the longer input, the shared suffix is
\* neither empty nor the whole of the shorter input.
C24_Witness ==
    /\ called = "longest_suffix"
    /\ Len(src) > Len(other)
    /\ Len(res.value) >= 1
    /\ Len(res.value) < Len(other)

\* C25: has_prefix(src, prefix) never panics and returns true exactly when
\* len(prefix) <= len(src) and the first len(prefix) elements of src are
\* prefix.
C25_HasPrefixIffStartsWith ==
    called = "has_prefix" =>
        /\ ~res.panic
        /\ res.value = (/\ Len(other) <= Len(src)
                        /\ SubSeq(src, 1, Len(other)) = other)

\* C25 witness: has_prefix was called with a prefix longer than src.
C25_Witness ==
    /\ called = "has_prefix"
    /\ Len(other) > Len(src)
    /\ res = Ok(FALSE)

\* C26: to_be_T_vec / to_le_T_vec of a byte slice whose length is a multiple
\* of size_of(T) return len / size_of(T) values of size_of(T) bytes, and
\* byte j of value i, counted from the most significant (be) or the least
\* significant (le) end, is byte i * size_of(T) + j of the input; for any
\* other length the call panics.
C26_ToVecDecodes ==
    \A ty \in Types : \A conv \in {"be", "le"} :
        called = VecFn[conv][ty] =>
            LET size == SizeOf[ty]
            IN  IF Len(src) % size = 0
                THEN /\ ~res.panic
                     /\ Len(res.value) = Len(src) \div size
                     /\ \A i \in 0..(Len(res.value) - 1) :
                          /\ res.value[i + 1] >= 0
                          /\ res.value[i + 1] \div (256 ^ (size - 1)) < 256
                          /\ \A j \in 0..(size - 1) :
                               src[i * size + j + 1] =
                                 (res.value[i + 1] \div
                                    (256 ^ (IF conv = "be" THEN size - 1 - j ELSE j))) % 256
                ELSE res.panic

\* C26 witness: as in test_to_u16, [0, 1, 0, 2] gives the big-endian u16
\* values [1, 2].
C26_Witness ==
    /\ called = "to_be_u16_vec"
    /\ src = <<0, 1, 0, 2>>
    /\ res = Ok(<<1, 2>>)

\* C27: to_T_slice of a slice of k elements of S returns a slice of
\* (k * size_of(S)) / size_of(T) elements, which are within the
\* k * size_of(S) bytes of the source.
C27_SameBytes ==
    \A ty \in SliceTypes :
        called = SliceFn[ty] =>
            /\ ~res.panic
            /\ res.value = (src.len * SizeOf[src.ty]) \div SizeOf[ty]
            /\ res.value * SizeOf[ty] <= src.len * SizeOf[src.ty]

\* C28: when a done() invokes a continuation the counter is already 0, so
\* that a task polled again at once, with no add in between, reads 0. Under
\* ProtocolSpec every add precedes the first poll.
C28_ZeroWhenInvoked ==
    [][\A k \in Tasks : (notified'[k] /\ ~notified[k]) => count' = 0]_vars

\* C29: in every poll, from the registration to the counter read, the task
\* holds the slot lock and the slot holds the waker it wrote: no done() has
\* taken it in between, and the read comes after the write.
C29_RegisterBeforeCheck ==
    \A k \in Tasks :
        tstate[k] \in {"polling", "repolling"} =>
            /\ wlock = k
            /\ waker = k
            /\ lastReg = k

\* C29 witness: a poll has registered and has yet to read the counter while
\* a done() that read 1 is waiting for the slot lock.
C29_Witness ==
    \E k \in Tasks, t \in Workers :
        /\ tstate[k] = "polling"
        /\ pc[t] = "done_take"
        /\ count = 1

\* C30: the blocking done() works under the count mutex from its
\* evaluation to its store. Finding count = 1 it empties the condvar, every
\* parked thread being woken, and stores 0; finding 0 it wakes nobody and
\* stores 0; finding 2 or more it wakes nobody and stores count - 1.
C30_DoneCases ==
    [][\A t \in Threads :
        /\ (pc[t] = "idle" /\ pc'[t] = "done_store") =>
              /\ lock = NoThread
              /\ lock' = t
              /\ count' = count
              /\ IF count = 1
                 THEN /\ cvar' = {}
                      /\ \A u \in cvar : pc'[u] = "woken"
                      /\ \A u \in Threads \ (cvar \cup {t}) : pc'[u] = pc[u]
                 ELSE /\ cvar' = cvar
                      /\ \A u \in Threads \ {t} : pc'[u] = pc[u]
        /\ (pc[t] = "done_store" /\ pc'[t] = "idle") =>
              /\ lock = t
              /\ lock' = NoThread
              /\ count' = IF count = 1 \/ count = 0 THEN 0 ELSE count - 1
              /\ cvar' = cvar
              /\ \A u \in Threads \ {t} : pc'[u] = pc[u]]_vars

\* C30 witness: a done() that found count = 1 has woken two parked threads
\* and is about to store 0.
C30_Witness ==
    \E t \in Threads :
        /\ variant = "sync"
        /\ pc[t] = "done_store"
        /\ count = 1
        /\ Cardinality({u \in Threads : pc[u] = "woken"}) = 2

\* C31: a done() between its notification and its store holds the count
\* mutex, and a woken waiter tests the count again only with the mutex free,
\* hence with no done() between its notification and its store: the waiter
\* never reads the 1 that a done() which has notified it is about to
\* overwrite.
C31_AtomicWake ==
    [][/\ \A t \in Threads : pc[t] = "done_store" => lock = t
       /\ \A u \in Threads :
            (pc[u] = "woken" /\ pc'[u] # "woken") =>
                /\ lock = NoThread
                /\ \A t \in Threads : pc[t] # "done_store"]_vars

\* C31 witness: a waiter that had parked has tested the count again and
\* returned, after a done() took the count to 0.
C31_Witness ==
    /\ variant = "sync"
    /\ ret.call = "wait"
    /\ ret.blocked
    /\ rounds >= 1
    /\ count = 0

\* C32: the count mutex is held only by a thread inside done(), never by a
\* thread parked in wait, and its holder can always go on to its store and
\* release it; with threads scheduled fairly every done() begun returns and
\* the mutex is free again and again, so that add, done and waitings, which
\* need nothing but the mutex, are never blocked for good, however many
\* threads are parked.
C32_CallsComplete ==
    /\ [](lock # NoThread =>
            /\ pc[lock] = "done_store"
            /\ lock \notin cvar
            /\ ENABLED DoneStore(lock))
    /\ \A t \in Threads : (pc[t] = "done_store") ~> (pc[t] = "idle")
    /\ []<>(lock = NoThread)

\* C32 witness: two threads are parked in wait while a third is inside
\* done(), holding the mutex.
C32_Witness ==
    /\ variant = "sync"
    /\ Cardinality(cvar) = 2
    /\ lock # NoThread
    /\ lock \notin cvar

\* C33: the slot changes only by a poll writing its own waker or by a
\* done() whose closure ran on 1 emptying it; a waker is held and invoked only
\* by a done() whose closure ran on 1; add and waitings, and a closure run on
\* 0 or on 2 and more, leave the slot as it is and invoke nothing.
C33_SlotFrame ==
    [][/\ waker' # waker =>
            \/ /\ waker' \in Tasks
               /\ tstate[waker'] \notin {"polling", "repolling"}
               /\ tstate'[waker'] \in {"polling", "repolling"}
            \/ /\ waker' = NoTask
               /\ \E t \in Workers :
                    pc[t] = "done_take" /\ val[t] = 1 /\ pc'[t] = "done_wake"
       /\ \A t \in Workers : taken[t] # NoTask => (val[t] = 1 /\ pc[t] = "done_wake")
       /\ \A k \in Tasks :
            (notified'[k] /\ ~notified[k]) =>
                \E t \in Workers : pc[t] = "done_wake" /\ val[t] = 1 /\ taken[t] = k
       /\ (sumAdd' # sumAdd \/ ret'.call = "waitings") =>
            UNCHANGED <<waker, wlock, taken, notified, tstate>>
       /\ \A t \in Workers :
            (/\ pc[t] \notin {"done_take", "done_wake"}
             /\ pc'[t] # pc[t] \/ val'[t] # val[t] \/ numDone' # numDone) =>
                UNCHANGED <<waker, wlock, taken, notified, tstate>>]_vars

\* C33 witness: a done() whose closure ran on 2 is at its compare-exchange
\* while a task's waker is registered.
C33_Witness ==
    \E t \in Workers :
        /\ pc[t] = "done_cas"
        /\ val[t] = 2
        /\ waker # NoTask

\* C34: a thread notified by the done() that takes the count to 0 tests the
\* count again once it has the mutex; if an add has raised the count by then
\* it parks again without returning, and a thread leaves wait only in a step
\* that finds the count at 0.
C34_TransientZeroKeepsWaiter ==
    [][\A u \in Threads :
        /\ (pc[u] = "woken" /\ pc'[u] # "woken") =>
              /\ lock = NoThread
              /\ count' = count
              /\ IF count = 0
                 THEN pc'[u] = "idle" /\ ret' = Returned("wait", u, TRUE)
                 ELSE pc'[u] = "parked" /\ u \in cvar' /\ ret' = NoRet
        /\ (pc[u] \in {"parked", "woken"} /\ pc'[u] = "idle") => count = 0
        /\ (ret' # ret /\ ret'.call = "wait") => count = 0]_vars

\* C34 witness: the count has been to 0 and an add has raised it again; a
\* thread that was parked before, and so was woken by the notify_all of that
\* done(), is parked once more, and no thread has returned from wait.
C34_Witness ==
    /\ variant = "sync"
    /\ rounds = 1
    /\ numDone = 1
    /\ sumAdd = 2
    /\ count = 1
    /\ settled = {}
    /\ \E u \in Threads : pc[u] = "parked" /\ u \in cvar
    /\ \A u \in Threads : pc[u] \in {"parked", "idle"}

\* C35: the poll that returns Ready leaves in the slot the waker it wrote
\* there; from then on the waker of a task that is not awaiting the group
\* leaves the slot only when a poll writes another waker over it or when a
\* done() whose closure ran on 1 takes it, and that done() then invokes it.
C35_ReadyLeavesWaker ==
    [][/\ \A k \in Tasks :
            /\ (tstate[k] \in {"polling", "repolling"} /\ tstate'[k] = "idle") =>
                /\ count = 0
                /\ waker = k
                /\ waker' = k
            /\ (waker = k /\ tstate[k] = "idle" /\ waker' # k) =>
                \/ /\ waker' \in Tasks
                   /\ tstate'[waker'] \in {"polling", "repolling"}
                \/ /\ waker' = NoTask
                   /\ \E t \in Workers :
                        /\ pc[t] = "done_take"
                        /\ val[t] = 1
                        /\ taken'[t] = k
                        /\ pc'[t] = "done_wake"
       /\ \A t \in Workers :
            (pc[t] = "done_wake" /\ pc'[t] # "done_wake") =>
                /\ notified' = Wake(taken[t])
                /\ taken'[t] = NoTask]_vars

\* C35 witness: a poll has just returned Ready, no task is awaiting the group
\* or being polled, and the slot holds the waker of the task that was told
\* Ready.
C35_Witness ==
    /\ variant = "async"
    /\ ret.call = "ready"
    /\ count = 0
    /\ waker \in Tasks
    /\ ret = Returned("ready", waker, ret.blocked)
    /\ \A k \in Tasks : tstate[k] = "idle"

\* C36: the slot lock is never held by a done(): whoever holds it is a task
\* inside poll, which gives it back without waiting for anything. A done()
\* that has taken a waker can always invoke it, and once the lock is free the
\* task it has woken can be polled again, before that done() has returned.
C36_WakeOutsideLock ==
    /\ wlock # NoTask =>
          /\ wlock \in Tasks
          /\ tstate[wlock] \in {"polling", "repolling"}
          /\ ENABLED PollCheck(wlock)
    /\ \A t \in Workers :
          pc[t] = "done_wake" =>
              /\ wlock # 0 - t
              /\ ENABLED AsyncDoneWake(t)
    /\ \A t \in Workers, k \in Tasks :
          (/\ pc[t] = "done_cas"
           /\ tstate[k] = "pending"
           /\ notified[k]
           /\ wlock = NoTask) => ENABLED Poll(k)

\* C36 witness: the one done() in progress has read 1 and invoked the waker
\* it took, its compare-exchange is still to come, and the task it woke has
\* been polled again inside that window: the poll took the slot lock, read
\* the count, and returned.
C36_Witness ==
    /\ variant = "async"
    /\ DonesInFlight = 1
    /\ count = 1
    /\ wlock = NoTask
    /\ \E t \in Workers, k \in Tasks :
          /\ pc[t] = "done_cas"
          /\ val[t] = 1
          /\ ret = Returned("pending", k, TRUE)
          /\ waker = k

====
